---- MODULE Spec2Model ----
(***************************************************************************)
(* The publish workflow of the blog API: the Post / PublishRequest state   *)
(* machine driven by the request, approve, reject and cancel handlers of   *)
(* src/routes/publish.ts.  Every handler is a sequence of steps separated  *)
(* by its awaits on the store; steps of different in-flight HTTP requests  *)
(* interleave freely, a prisma.$transaction is one atomic step.            *)
(*                                                                         *)
(* The content routes follow: slug generation (utils/slug.ts), the post    *)
(* writes of routes/posts.ts with their retry on slug conflicts and their  *)
(* tag resolution, and the tag routes of routes/tags.ts.  The interactive  *)
(* transactions of the post writes await between their statements, so they *)
(* span several steps; their writes reach the store at commit.             *)
(***************************************************************************)
EXTENDS Integers, FiniteSets, Sequences, TLC

\* ---------------------------------------------------------------- bounds
NumHandlers == 2        \* HTTP requests in flight at the same time
MaxRequests == 2        \* PublishRequest rows ever created
MaxDate == 1            \* distinct values new Date() can take

Handlers == 1..NumHandlers
RequestIds == 1..MaxRequests
Dates == 1..MaxDate

\* ---------------------------------------------------------------- data
Null == "null"                  \* SQL NULL / JS null
NoDate == 0                     \* publishedAt IS NULL
Undefined == "undefined"        \* an optional body field that is absent
NoRequestId == 0
NoPostId == "none"
Anonymous == "anonymous"        \* a caller without a session

Users == {"alice", "carol", "dave"}
Actors == Users \cup {Anonymous}
PostIds == {"p1", "p2"}
MissingPostId == "p0"           \* a well-formed id no post has
MsgInputs == {Undefined, "", "m1"}          \* bodies sent to reject
OptionalMsgInputs == {Undefined, "m1"}      \* bodies sent to request and approve

\* session.user.role
RoleOf(u) ==
    CASE u = "alice" -> "AUTHOR"
      [] u = "carol" -> "ADMIN"
      [] OTHER -> "READER"

\* Post.authorId of the posts that exist
PostAuthor(p) == IF p = "p1" THEN "alice" ELSE "carol"

\* ---------------------------------------------------------------- responses
Created == "201"
Ok == "200"
Unauthorized == "401 Unauthorized"
Forbidden == "403 Forbidden"
PostNotFound == "404 Post not found"
RequestNotFound == "404 Publish request not found"
ValidationError == "400 Validation Error"
NotDraft == "400 Only draft posts can request publishing"
AlreadyPending == "400 A publish request is already pending for this post"
AlreadyProcessed == "400 This request has already been processed"
NotPending == "400 Only pending requests can be cancelled"
InternalError == "500"          \* an exception that escapes the handler
NoResult == "-"

VARIABLES posts, requests, nextId, ctx, response, db, called,
          rateLimitStore, now, reached, ownWindow

vars == <<posts, requests, nextId, ctx, response, db, called,
          rateLimitStore, now, reached, ownWindow>>

\* the state of the rate limiting middleware
limiterVars == <<rateLimitStore, now, reached, ownWindow>>

\* no request has met a rate limiter
NoTraffic ==
    /\ rateLimitStore = <<>>
    /\ now = 0
    /\ reached = <<>>
    /\ ownWindow = <<>>

\* the tables behind the post and tag routes: Post, Tag and PostTag rows and
\* the ids handed out so far; empty while only the publish workflow runs
EmptyDb == [post |-> {}, tag |-> {}, postTag |-> {}, nextPost |-> 1, nextTag |-> 1]

\* a handler slot that serves no HTTP request
IdleCtx ==
    [pc |-> "idle", op |-> "none", user |-> Anonymous, postId |-> NoPostId,
     requestId |-> NoRequestId, msg |-> Undefined]

\* no response was sent by the last step
NoResponse ==
    [op |-> "none", at |-> "none", user |-> Anonymous, postId |-> NoPostId,
     requestId |-> NoRequestId, result |-> NoResult]

Init ==
    /\ posts = [p \in PostIds |->
                  [authorId |-> PostAuthor(p), status |-> "DRAFT", publishedAt |-> NoDate]]
    /\ requests = {}
    /\ nextId = 1
    /\ ctx = [h \in Handlers |-> IdleCtx]
    /\ response = NoResponse
    /\ db = EmptyDb
    /\ called = {}
    /\ NoTraffic

\* ---------------------------------------------------------------- helpers
\* String.length of the message bodies the model sends
MsgLen(m) == IF m = "" THEN 0 ELSE 2

publishPostSchema(m) == m = Undefined \/ MsgLen(m) <= 1000

approvePublishRequestSchema(m) == m = Undefined \/ MsgLen(m) <= 1000

\* mutant: the rejection message is optional, as the approval message is
rejectPublishRequestSchema_Optional(m) == m = Undefined \/ MsgLen(m) <= 1000

rejectPublishRequestSchema(m) == m # Undefined /\ MsgLen(m) >= 1 /\ MsgLen(m) <= 1000

requireAuth(u) == u # Anonymous

\* mutant: the role middleware lets every authenticated user through
requireRole_Any(allowedRoles, u) == TRUE

requireRole(allowedRoles, u) == RoleOf(u) \in allowedRoles

\* mutant: the ownership check forgets the exemption of admins
NotOwnerNorAdmin_OwnerOnly(authorId, u) == authorId # u

\* the ownership check: authorId !== user.id && user.role !== "ADMIN"
NotOwnerNorAdmin(authorId, u) == authorId # u /\ RoleOf(u) # "ADMIN"

\* prisma.publishRequest.findUnique({ where: { id } })
HasRequest(id) == \E r \in requests : r.id = id

FindRequest(id) == CHOOSE r \in requests : r.id = id

\* prisma.publishRequest.findFirst({ where: { postId, status: "PENDING" } })
HasPendingRequest(p) == \E r \in requests : r.postId = p /\ r.status = "PENDING"

\* mutant: the store has no uniqueness guarantee on PENDING requests
UniquePendingViolated_Absent(rows, row) == FALSE

\* The store's uniqueness guarantee on (postId, status = PENDING): inserting
\* row would give its post a second PENDING request.
UniquePendingViolated(rows, row) ==
    /\ row.status = "PENDING"
    /\ \E r \in rows : r.postId = row.postId /\ r.status = "PENDING"

\* The error the store raises for that violation: code P2002, with
\* meta.target naming the fields of the constraint, its key, or absent.
UniqueViolationErrors ==
    { [code |-> "P2002", target |-> [kind |-> "array", fields |-> {"postId", "status"}]],
      [code |-> "P2002", target |-> [kind |-> "array", fields |-> {"postId"}]],
      [code |-> "P2002", target |-> [kind |-> "none", fields |-> {}]] }

Range(seq) == { seq[i] : i \in 1..Len(seq) }

\* mutant: the handler looks for another error code than P2002
isUniqueConstraintError_WrongCode(error, fields) ==
    IF error.code # "P2025" THEN FALSE
    ELSE IF Len(fields) = 0 THEN TRUE
    ELSE error.target.kind = "none"

isUniqueConstraintError(error, fields) ==
    IF error.code # "P2002" THEN FALSE
    ELSE IF Len(fields) = 0 THEN TRUE
    ELSE IF error.target.kind = "none" THEN TRUE
    ELSE IF error.target.kind = "array"
         THEN \E f \in Range(fields) : f \in error.target.fields
    ELSE error.target.fields \subseteq Range(fields)

\* c.json(...): the handler of context c ends at step `at` with outcome res
Respond(c, at, res) ==
    [op |-> c.op, at |-> at, user |-> c.user, postId |-> c.postId,
     requestId |-> c.requestId, result |-> res]

NewCtx(o, u, p, r, m) ==
    [IdleCtx EXCEPT !.op = o, !.user = u, !.postId = p, !.requestId = r, !.msg = m]

\* handler h stops: its slot is free and its response is the step's output
Finish(h, c, at, res) ==
    /\ ctx' = [ctx EXCEPT ![h] = IdleCtx]
    /\ response' = Respond(c, at, res)
    /\ UNCHANGED <<db, called, limiterVars>>

\* handler h goes on to the step named pc
Continue(h, c, pc) ==
    /\ ctx' = [ctx EXCEPT ![h] = [c EXCEPT !.pc = pc]]
    /\ response' = NoResponse
    /\ UNCHANGED <<db, called, limiterVars>>

\* a response in flight is delivered before the server takes its next step
Delivered == response = NoResponse

CanStart(h) == Delivered /\ ctx[h].pc = "idle"

AtStep(h, pc) == Delivered /\ ctx[h].pc = pc

\* the client receives the response
Deliver ==
    /\ response # NoResponse
    /\ response' = NoResponse
    /\ UNCHANGED <<posts, requests, nextId, ctx, db, called, limiterVars>>

\* ---------------------------------------------------------------- request
\* middleware, validation, post.findUnique, ownership and status checks
RequestStart(h, u, p, m) ==
    /\ CanStart(h)
    /\ LET c == NewCtx("request", u, p, NoRequestId, m)
           res == IF ~requireAuth(u) THEN Unauthorized
                  ELSE IF ~requireRole({"AUTHOR", "ADMIN"}, u) THEN Forbidden
                  ELSE IF ~publishPostSchema(m) THEN ValidationError
                  ELSE IF p \notin PostIds THEN PostNotFound
                  ELSE IF NotOwnerNorAdmin(posts[p].authorId, u) THEN Forbidden
                  ELSE IF posts[p].status # "DRAFT" THEN NotDraft
                  ELSE NoResult
       IN  IF res = NoResult THEN Continue(h, c, "request_findFirst")
           ELSE Finish(h, c, "start", res)
    /\ UNCHANGED <<posts, requests, nextId>>

\* publishRequest.findFirst for an already PENDING request
RequestFindFirst(h) ==
    /\ AtStep(h, "request_findFirst")
    /\ IF HasPendingRequest(ctx[h].postId)
       THEN Finish(h, ctx[h], "findFirst", AlreadyPending)
       ELSE Continue(h, ctx[h], "request_tx")
    /\ UNCHANGED <<posts, requests, nextId>>

\* the data of tx.publishRequest.create
NewRequest(c, id) ==
    [id |-> id, postId |-> c.postId, authorId |-> c.user, status |-> "PENDING",
     message |-> IF c.msg = Undefined THEN Null ELSE c.msg]

\* prisma.$transaction: create the request, move the post to PENDING_APPROVAL
RequestTx(h) ==
    /\ AtStep(h, "request_tx")
    /\ LET c == ctx[h]
           row == NewRequest(c, nextId)
       IN  IF UniquePendingViolated(requests, row)
           THEN \E err \in UniqueViolationErrors :
                  /\ Finish(h, c, "tx",
                            IF isUniqueConstraintError(err, <<"postId", "status">>)
                            THEN AlreadyPending ELSE InternalError)
                  /\ UNCHANGED <<posts, requests, nextId>>
           ELSE /\ nextId <= MaxRequests
                /\ requests' = requests \cup {row}
                /\ posts' = [posts EXCEPT ![c.postId].status = "PENDING_APPROVAL"]
                /\ nextId' = nextId + 1
                /\ Finish(h, [c EXCEPT !.requestId = row.id], "tx", Created)

\* ---------------------------------------------------------------- approve
ApproveStart(h, u, id, m) ==
    /\ CanStart(h)
    /\ LET c == NewCtx("approve", u, NoPostId, id, m)
           res == IF ~requireAuth(u) THEN Unauthorized
                  ELSE IF ~requireRole({"ADMIN"}, u) THEN Forbidden
                  ELSE IF ~approvePublishRequestSchema(m) THEN ValidationError
                  ELSE IF ~HasRequest(id) THEN RequestNotFound
                  ELSE IF FindRequest(id).status # "PENDING" THEN AlreadyProcessed
                  ELSE NoResult
       IN  IF res = NoResult
           THEN Continue(h, [c EXCEPT !.postId = FindRequest(id).postId], "approve_tx")
           ELSE Finish(h, c, "start", res)
    /\ UNCHANGED <<posts, requests, nextId>>

\* the row tx.publishRequest.update writes; an undefined message is left alone
UpdatedRequest(r, status, m) ==
    [r EXCEPT !.status = status, !.message = IF m = Undefined THEN r.message ELSE m]

\* mutant: approve publishes the post without stamping publishedAt
PublishedPost_NoDate(post, d) == [post EXCEPT !.status = "PUBLISHED"]

PublishedPost_DateOnly(post, d) == [post EXCEPT !.publishedAt = d]

\* the row tx.post.update writes when a request is approved
PublishedPost(post, d) == [post EXCEPT !.status = "PUBLISHED", !.publishedAt = d]

ApproveTx(h) ==
    /\ AtStep(h, "approve_tx")
    /\ LET c == ctx[h]
       IN  IF ~HasRequest(c.requestId)
           THEN /\ Finish(h, c, "tx", InternalError)
                /\ UNCHANGED <<posts, requests>>
           ELSE \E d \in Dates :
                  /\ requests' = (requests \ {FindRequest(c.requestId)})
                        \cup {UpdatedRequest(FindRequest(c.requestId), "APPROVED", c.msg)}
                  /\ posts' = [posts EXCEPT ![c.postId] = PublishedPost(@, d)]
                  /\ Finish(h, c, "tx", Ok)
    /\ UNCHANGED nextId

\* ---------------------------------------------------------------- reject
RejectStart(h, u, id, m) ==
    /\ CanStart(h)
    /\ LET c == NewCtx("reject", u, NoPostId, id, m)
           res == IF ~requireAuth(u) THEN Unauthorized
                  ELSE IF ~requireRole({"ADMIN"}, u) THEN Forbidden
                  ELSE IF ~rejectPublishRequestSchema(m) THEN ValidationError
                  ELSE IF ~HasRequest(id) THEN RequestNotFound
                  ELSE IF FindRequest(id).status # "PENDING" THEN AlreadyProcessed
                  ELSE NoResult
       IN  IF res = NoResult
           THEN Continue(h, [c EXCEPT !.postId = FindRequest(id).postId], "reject_tx")
           ELSE Finish(h, c, "start", res)
    /\ UNCHANGED <<posts, requests, nextId>>

RejectTx(h) ==
    /\ AtStep(h, "reject_tx")
    /\ LET c == ctx[h]
       IN  IF ~HasRequest(c.requestId)
           THEN /\ Finish(h, c, "tx", InternalError)
                /\ UNCHANGED <<posts, requests>>
           ELSE /\ requests' = (requests \ {FindRequest(c.requestId)})
                      \cup {UpdatedRequest(FindRequest(c.requestId), "REJECTED", c.msg)}
                /\ posts' = [posts EXCEPT ![c.postId].status = "DRAFT"]
                /\ Finish(h, c, "tx", Ok)
    /\ UNCHANGED nextId

\* ---------------------------------------------------------------- cancel
CancelStart(h, u, id) ==
    /\ CanStart(h)
    /\ LET c == NewCtx("cancel", u, NoPostId, id, Undefined)
           res == IF ~requireAuth(u) THEN Unauthorized
                  ELSE IF ~HasRequest(id) THEN RequestNotFound
                  ELSE IF NotOwnerNorAdmin(FindRequest(id).authorId, u) THEN Forbidden
                  ELSE IF FindRequest(id).status # "PENDING" THEN NotPending
                  ELSE NoResult
       IN  IF res = NoResult
           THEN Continue(h, [c EXCEPT !.postId = FindRequest(id).postId], "cancel_tx")
           ELSE Finish(h, c, "start", res)
    /\ UNCHANGED <<posts, requests, nextId>>

CancelTx(h) ==
    /\ AtStep(h, "cancel_tx")
    /\ LET c == ctx[h]
       IN  IF ~HasRequest(c.requestId)
           THEN /\ Finish(h, c, "tx", InternalError)
                /\ UNCHANGED <<posts, requests>>
           ELSE /\ requests' = requests \ {FindRequest(c.requestId)}
                /\ posts' = [posts EXCEPT ![c.postId].status = "DRAFT"]
                /\ Finish(h, c, "tx", Ok)
    /\ UNCHANGED nextId

\* ---------------------------------------------------------------- system
Next ==
    \/ Deliver
    \/ \E h \in Handlers :
        \/ \E u \in Actors, p \in PostIds \cup {MissingPostId}, m \in OptionalMsgInputs :
              RequestStart(h, u, p, m)
        \/ RequestFindFirst(h)
        \/ RequestTx(h)
        \/ \E u \in Actors, id \in RequestIds, m \in OptionalMsgInputs : ApproveStart(h, u, id, m)
        \/ ApproveTx(h)
        \/ \E u \in Actors, id \in RequestIds, m \in MsgInputs : RejectStart(h, u, id, m)
        \/ RejectTx(h)
        \/ \E u \in Actors, id \in RequestIds : CancelStart(h, u, id)
        \/ CancelTx(h)

Spec == Init /\ [][Next]_vars

TypeOK ==
    /\ nextId \in 1..(MaxRequests + 1)
    /\ \A r \in requests : r.id \in RequestIds /\ r.status \in {"PENDING", "APPROVED", "REJECTED"}

\* ================================================================ claims
PendingOf(rows, p) == { r \in rows : r.postId = p /\ r.status = "PENDING" }

\* handler h takes the step it is waiting at under the name pc
TookStep(h, pc) == ctx[h].pc = pc /\ ctx'[h].pc # pc

StoreUnchanged == posts' = posts /\ requests' = requests /\ nextId' = nextId

\* C1: in every reachable state each post has at most one PublishRequest
\* whose status is PENDING.
C1_OnePendingPerPost ==
    \A p \in PostIds : Cardinality(PendingOf(requests, p)) <= 1

\* a request handler is about to create a request for a post that already
\* has a PENDING one
C1_Witness ==
    \E h \in Handlers :
        /\ ctx[h].pc = "request_tx"
        /\ Cardinality(PendingOf(requests, ctx[h].postId)) = 1

\* C2: of request operations racing on one post, the one whose transaction
\* finds a PENDING request of the post creates no row and is answered with
\* the 'already pending' conflict, never with an unexpected error; the one
\* that finds none creates the single PENDING request.
C2_RacingRequestConflict ==
    [][\A h \in Handlers :
          TookStep(h, "request_tx") =>
              IF HasPendingRequest(ctx[h].postId)
              THEN response'.result = AlreadyPending /\ StoreUnchanged
              ELSE /\ response'.result = Created
                   /\ Cardinality(requests') = Cardinality(requests) + 1
                   /\ Cardinality(PendingOf(requests', ctx[h].postId)) = 1]_vars

\* the loser of the race has just been answered
C2_Witness ==
    /\ response.op = "request" /\ response.at = "tx"
    /\ response.result = AlreadyPending
    /\ Cardinality(PendingOf(requests, response.postId)) = 1

\* C3: when approve and reject race on one request, the transaction that
\* finds the request already resolved by the other one fails with 'already
\* processed' and changes neither the request nor its post.
C3_ApproveRejectExclusive ==
    [][\A h \in Handlers :
          (/\ HasRequest(ctx[h].requestId)
           /\ \/ (/\ TookStep(h, "approve_tx")
                  /\ FindRequest(ctx[h].requestId).status = "REJECTED")
              \/ (/\ TookStep(h, "reject_tx")
                  /\ FindRequest(ctx[h].requestId).status = "APPROVED"))
          => (response'.result = AlreadyProcessed /\ StoreUnchanged)]_vars

\* C4: a request operation creates its PublishRequest only when, in the
\* state it commits in, the post is DRAFT and has no PENDING request; the
\* created row is PENDING with the actor as author and the post becomes
\* PENDING_APPROVAL in the same step.
C4_RequestPrecondition ==
    [][\A h \in Handlers :
          TookStep(h, "request_tx") /\ response'.result = Created =>
              /\ posts[ctx[h].postId].status = "DRAFT"
              /\ ~HasPendingRequest(ctx[h].postId)
              /\ \E r \in requests' \ requests :
                    /\ requests' = requests \cup {r}
                    /\ r.postId = ctx[h].postId /\ r.status = "PENDING"
                    /\ r.authorId = ctx[h].user
              /\ posts'[ctx[h].postId].status = "PENDING_APPROVAL"]_vars

\* C5: an approve that takes effect leaves the PublishRequest APPROVED and
\* its post PUBLISHED with publishedAt set.
C5_ApproveEffect ==
    [][\A h \in Handlers :
          TookStep(h, "approve_tx") /\ response'.result = Ok =>
              \E r \in requests' :
                 /\ r.id = ctx[h].requestId /\ r.status = "APPROVED"
                 /\ posts'[r.postId].status = "PUBLISHED"
                 /\ posts'[r.postId].publishedAt # NoDate]_vars

\* request followed by approve has just completed
C5_Witness ==
    /\ response.op = "approve" /\ response.result = Ok
    /\ \E r \in requests :
          /\ r.id = response.requestId /\ r.status = "APPROVED"
          /\ posts[r.postId].status = "PUBLISHED"
          /\ posts[r.postId].publishedAt # NoDate

\* C6: a reject reaches its transaction only with a non-empty message, and
\* a reject that takes effect leaves the post DRAFT and the PublishRequest
\* in the store, REJECTED, with the supplied message.
C6_RejectEffect ==
    [][\A h \in Handlers :
          TookStep(h, "reject_tx") /\ response'.result = Ok =>
              /\ ctx[h].msg \notin {Undefined, ""}
              /\ \E r \in requests' :
                    /\ r.id = ctx[h].requestId /\ r.status = "REJECTED"
                    /\ r.message = ctx[h].msg
                    /\ posts'[r.postId].status = "DRAFT"]_vars

\* request followed by reject has just completed
C6_Witness ==
    /\ response.op = "reject" /\ response.result = Ok
    /\ \E r \in requests :
          /\ r.id = response.requestId /\ r.status = "REJECTED"
          /\ r.message = "m1"
          /\ posts[r.postId].status = "DRAFT"

\* C7: a cancel takes effect only on a request that is PENDING and only for
\* its author or an admin, and then the request is gone and its post is
\* DRAFT; a cancel of a request that is not PENDING fails with 'only pending
\* requests can be cancelled' and changes nothing.
C7_CancelPrecondition ==
    [][\A h \in Handlers :
          TookStep(h, "cancel_tx") /\ HasRequest(ctx[h].requestId) =>
              LET r == FindRequest(ctx[h].requestId)
              IN  IF r.status = "PENDING"
                  THEN /\ ~NotOwnerNorAdmin(r.authorId, ctx[h].user)
                       /\ response'.result = Ok
                       /\ ~\E r2 \in requests' : r2.id = r.id
                       /\ posts'[r.postId].status = "DRAFT"
                  ELSE response'.result = NotPending /\ StoreUnchanged]_vars

\* C8: a request on a DRAFT post by an AUTHOR who does not own it is
\* answered Forbidden and changes nothing; by an ADMIN it passes the
\* authorization checks whoever owns the post.
C8_RequestAuthorization ==
    [][\A h \in Handlers, p \in PostIds :
          (/\ ctx[h].pc = "idle"
           /\ posts[p].status = "DRAFT"
           /\ \/ (ctx'[h].op = "request" /\ ctx'[h].postId = p)
              \/ (/\ response'.op = "request" /\ response'.at = "start"
                  /\ response'.postId = p))
          => LET u == IF ctx'[h].op = "request" THEN ctx'[h].user ELSE response'.user
             IN  /\ (RoleOf(u) = "AUTHOR" /\ posts[p].authorId # u) =>
                       (response'.result = Forbidden /\ StoreUnchanged)
                 /\ RoleOf(u) = "ADMIN" =>
                       (ctx'[h].pc = "request_findFirst" /\ ctx'[h].user = u)]_vars

\* an author was refused on a draft of somebody else
C8_Witness ==
    /\ response.op = "request" /\ response.result = Forbidden
    /\ RoleOf(response.user) = "AUTHOR"
    /\ response.postId \in PostIds
    /\ posts[response.postId].authorId # response.user
    /\ posts[response.postId].status = "DRAFT"

\* C9: a PublishRequest changes status only in a step of an approve or
\* reject whose actor is ADMIN and only to APPROVED or REJECTED; a request
\* leaves the store only through cancel.
C9_ResolvedOnlyByAdmin ==
    [][\A r \in requests :
          /\ (\E r2 \in requests' : r2.id = r.id /\ r2.status # r.status) =>
                (/\ response'.op \in {"approve", "reject"}
                 /\ response'.requestId = r.id
                 /\ RoleOf(response'.user) = "ADMIN"
                 /\ \A r2 \in requests' :
                       r2.id = r.id => r2.status \in {"APPROVED", "REJECTED"})
          /\ (~\E r2 \in requests' : r2.id = r.id) =>
                (response'.op = "cancel" /\ response'.requestId = r.id)]_vars

\* an author tried to approve a PENDING request and was refused
C9_Witness ==
    /\ response.op = "approve" /\ response.result = Forbidden
    /\ RoleOf(response.user) = "AUTHOR"
    /\ \E r \in requests : r.id = response.requestId /\ r.status = "PENDING"

\* C10: a PublishRequest that has reached APPROVED or REJECTED keeps that
\* status and stays in the store, whatever approve, reject or cancel was in
\* flight when it was resolved.
C10_ResolvedIsFinal ==
    [][\A r \in requests :
          r.status \in {"APPROVED", "REJECTED"} =>
              \E r2 \in requests' : r2.id = r.id /\ r2.status = r.status]_vars

\* ================================================================ content
\* The post and tag routes (src/routes/posts.ts, src/routes/tags.ts) and the
\* slug utilities (src/utils/slug.ts).  A string is the sequence of its
\* characters, so that slugs built from different titles can coincide.

\* ---------------------------------------------------------------- bounds
MaxPosts == 2           \* Post rows ever created
MaxTags == 2            \* Tag rows ever created
NumCreators == 4        \* createPost calls of one burst
MaxStoreSize == 3       \* rows of the table generateUniqueSlug reads
MaxLen == 4             \* characters of a text given to slugify

PostKeys == 1..MaxPosts
TagKeys == 1..MaxTags
Creators == 1..NumCreators
NoKey == 0                      \* no row id (excludeId undefined, no post yet)

\* ---------------------------------------------------------------- text
Whitespace == {" ", "\t"}                       \* \s
DigitChars == <<"0", "1", "2", "3", "4", "5", "6", "7", "8", "9">>
WordChars == {"a", "b", "j", "s", "A", "B", "J", "S", "_"} \cup Range(DigitChars)   \* \w

\* String.prototype.toLowerCase, character by character
toLowerCase(s) ==
    [i \in 1..Len(s) |->
        CASE s[i] = "A" -> "a"
          [] s[i] = "B" -> "b"
          [] s[i] = "J" -> "j"
          [] s[i] = "S" -> "s"
          [] OTHER -> s[i]]

RECURSIVE TrimStart(_)
TrimStart(s) ==
    IF s # <<>> /\ Head(s) \in Whitespace THEN TrimStart(Tail(s)) ELSE s

RECURSIVE TrimEnd(_)
TrimEnd(s) ==
    IF s # <<>> /\ s[Len(s)] \in Whitespace THEN TrimEnd(SubSeq(s, 1, Len(s) - 1)) ELSE s

\* String.prototype.trim
trim(s) == TrimEnd(TrimStart(s))

\* replace(/\s+/g, "-")
RECURSIVE SpacesToHyphen(_)
SpacesToHyphen(s) ==
    IF s = <<>> THEN <<>>
    ELSE IF Head(s) \in Whitespace THEN <<"-">> \o SpacesToHyphen(TrimStart(Tail(s)))
    ELSE <<Head(s)>> \o SpacesToHyphen(Tail(s))

IsSlugChar(ch) == ch \in WordChars \cup {"-"}

RemoveNonWord_Off(s) == s

\* replace(/[^\w\-]+/g, "")
RemoveNonWord(s) == SelectSeq(s, IsSlugChar)

\* replace(/\-\-+/g, "-")
RECURSIVE CollapseHyphens(_)
CollapseHyphens(s) ==
    IF Len(s) < 2 THEN s
    ELSE IF s[1] = "-" /\ s[2] = "-" THEN CollapseHyphens(Tail(s))
    ELSE <<Head(s)>> \o CollapseHyphens(Tail(s))

\* replace(/^-+/, "")
RECURSIVE StripLeadingHyphens(_)
StripLeadingHyphens(s) ==
    IF s # <<>> /\ Head(s) = "-" THEN StripLeadingHyphens(Tail(s)) ELSE s

\* replace(/-+$/, "")
RECURSIVE StripTrailingHyphens(_)
StripTrailingHyphens(s) ==
    IF s # <<>> /\ s[Len(s)] = "-"
    THEN StripTrailingHyphens(SubSeq(s, 1, Len(s) - 1)) ELSE s

slugify(text) ==
    StripTrailingHyphens(StripLeadingHyphens(CollapseHyphens(
        RemoveNonWord(SpacesToHyphen(trim(toLowerCase(text)))))))

\* the index of the first ">" of s, 0 when there is none
RECURSIVE IndexOfGt(_, _)
IndexOfGt(s, i) ==
    IF i > Len(s) THEN 0 ELSE IF s[i] = ">" THEN i ELSE IndexOfGt(s, i + 1)

\* replace(/<[^>]*>/g, "")
RECURSIVE stripHtml(_)
stripHtml(s) ==
    IF s = <<>> THEN <<>>
    ELSE IF Head(s) = "<" /\ IndexOfGt(s, 2) > 0
         THEN stripHtml(SubSeq(s, IndexOfGt(s, 2) + 1, Len(s)))
         ELSE <<Head(s)>> \o stripHtml(Tail(s))

sanitizeText(s) == trim(stripHtml(s))

\* the decimal digits of a counter, as `${counter}` writes them
RECURSIVE Digits(_)
Digits(k) ==
    IF k < 10 THEN <<DigitChars[k + 1]>>
    ELSE Digits(k \div 10) \o <<DigitChars[(k % 10) + 1]>>

\* `${baseSlug}-${counter}`
Suffixed(baseSlug, counter) == baseSlug \o <<"-">> \o Digits(counter)

\* an optional string that is absent, and an optional list that is absent
NoText == <<"undefined">>
NoList == <<NoText>>

\* equals with mode: "insensitive"
EqualsInsensitive(a, b) == toLowerCase(a) = toLowerCase(b)

\* ---------------------------------------------------------------- slug.ts
\* findUnique({ where: { slug } }): the rows of a table that hold the slug
HoldersOf(rows, slug) == { r \in rows : r.slug = slug }

\* the local variables of generateUniqueSlug before its first lookup
SlugSearch(title, excludeId) ==
    [baseSlug |-> slugify(title), slug |-> slugify(title), counter |-> 1,
     excludeId |-> excludeId, found |-> FALSE]

\* one turn of the while loop without the excludeId comparison
generateUniqueSlug_NoExclude(rows, g) ==
    IF HoldersOf(rows, g.slug) = {}
    THEN [g EXCEPT !.found = TRUE]
    ELSE [g EXCEPT !.slug = Suffixed(g.baseSlug, g.counter), !.counter = g.counter + 1]

\* one turn of the while loop of generateUniqueSlug: a lookup, then either
\* the return or the next candidate
generateUniqueSlug(rows, g) ==
    IF \A r \in HoldersOf(rows, g.slug) : r.id = g.excludeId
    THEN [g EXCEPT !.found = TRUE]
    ELSE [g EXCEPT !.slug = Suffixed(g.baseSlug, g.counter), !.counter = g.counter + 1]

\* one turn of the while loop of generateUniqueTagSlug
generateUniqueTagSlug(rows, g) ==
    IF \A r \in HoldersOf(rows, g.slug) : r.id = g.excludeId
    THEN [g EXCEPT !.found = TRUE]
    ELSE [g EXCEPT !.slug = Suffixed(g.baseSlug, g.counter), !.counter = g.counter + 1]

\* ---------------------------------------------------------------- slug search
\* generateUniqueSlug and generateUniqueTagSlug called against a fixed table
GenTitles == { <<"A">>, <<"a", " ", "1">>, <<"!">>, <<" ", "A", "-", "-", "_", " ">> }
GenSlugs == { <<"a">>, <<"a", "-", "1">>, <<"a", "-", "2">>, <<"a", "-", "1", "-", "1">>,
              <<>>, <<"-", "1">>, <<"a", "-", "_">> }
StoreKeys == 1..MaxStoreSize

\* the tables the search can meet: every row has its own slug
GenTables ==
    { { [id |-> k, slug |-> f[k]] : k \in DOMAIN f } :
        f \in { f \in UNION { [ks -> GenSlugs] : ks \in SUBSET StoreKeys } :
                  \A j, k \in DOMAIN f : j # k => f[j] # f[k] } }

GenCaller(fn, title, excludeId) ==
    [pc |-> "gen", op |-> fn, title |-> title, g |-> SlugSearch(title, excludeId)]

InitGen ==
    /\ posts = [p \in PostIds |->
                  [authorId |-> PostAuthor(p), status |-> "DRAFT", publishedAt |-> NoDate]]
    /\ requests = {}
    /\ nextId = 1
    /\ response = NoResponse
    /\ called = {}
    /\ NoTraffic
    /\ \E rows \in GenTables, fn \in {"generateUniqueSlug", "generateUniqueTagSlug"},
          title \in GenTitles, excludeId \in StoreKeys \cup {NoKey} :
          /\ db = IF fn = "generateUniqueSlug"
                  THEN [EmptyDb EXCEPT !.post = rows] ELSE [EmptyDb EXCEPT !.tag = rows]
          /\ ctx = [h \in Handlers |->
                      IF h = 1 THEN GenCaller(fn, title, excludeId) ELSE IdleCtx]

\* await prisma.post.findUnique(...) and the rest of the loop body
GenPostLookup(h) ==
    /\ ctx[h].pc = "gen" /\ ctx[h].op = "generateUniqueSlug"
    /\ LET g == generateUniqueSlug(db.post, ctx[h].g)
       IN ctx' = [ctx EXCEPT ![h] = [ctx[h] EXCEPT !.g = g,
                                       !.pc = IF g.found THEN "returned" ELSE "gen"]]
    /\ UNCHANGED <<posts, requests, nextId, response, db, called, limiterVars>>

\* await prisma.tag.findUnique(...) and the rest of the loop body
GenTagLookup(h) ==
    /\ ctx[h].pc = "gen" /\ ctx[h].op = "generateUniqueTagSlug"
    /\ LET g == generateUniqueTagSlug(db.tag, ctx[h].g)
       IN ctx' = [ctx EXCEPT ![h] = [ctx[h] EXCEPT !.g = g,
                                       !.pc = IF g.found THEN "returned" ELSE "gen"]]
    /\ UNCHANGED <<posts, requests, nextId, response, db, called, limiterVars>>

NextGen == \E h \in Handlers : GenPostLookup(h) \/ GenTagLookup(h)

SpecGen == InitGen /\ [][NextGen]_vars

\* ---------------------------------------------------------------- posts.ts
MAX_SLUG_RETRIES == 3

PostStatuses == {"DRAFT", "PENDING_APPROVAL", "PUBLISHED"}

TagNotFound == "404 Tag not found"
TagExists == "400 Tag with this name already exists"
TagInUse == "400 Cannot delete tag with associated posts"

\* the request of a post or tag route before its handler has read anything
ContentCall(o, u, id, title, tags) ==
    [pc |-> "idle", op |-> o, user |-> u, postId |-> id, title |-> title, tags |-> tags,
     existing |-> Null, attempt |-> 0, g |-> Null, slug |-> Null,
     tagIndex |-> 1, tagIds |-> <<>>, created |-> {}]

\* c.json(...) of a post or tag route
Reply(h, c, at, res) ==
    /\ ctx' = [ctx EXCEPT ![h] = IdleCtx]
    /\ response' = [op |-> c.op, at |-> at, user |-> c.user, postId |-> c.postId,
                    requestId |-> NoRequestId, result |-> res]
    /\ UNCHANGED <<posts, requests, nextId, called, limiterVars>>

\* the handler awaits its next store call
Goto(h, c) ==
    /\ ctx' = [ctx EXCEPT ![h] = c]
    /\ response' = NoResponse
    /\ UNCHANGED <<posts, requests, nextId, called, limiterVars>>

\* the handlers that are serving a call of one of the given routes
Serving(ops) == { k \in DOMAIN ctx : ctx[k].op \in ops }

\* z.string().min(1).max(200)
createPostSchema(title) == title # NoText /\ Len(title) >= 1 /\ Len(title) <= 200

updatePostSchema(title) == title = NoText \/ (Len(title) >= 1 /\ Len(title) <= 200)

\* prisma.post.findUnique({ where: { id } })
HasPost(id) == \E r \in db.post : r.id = id

FindPost(id) == CHOOSE r \in db.post : r.id = id

\* The store's uniqueness guarantee on Post.slug: another row holds the slug.
SlugTaken_Absent(rows, id, slug) == FALSE

SlugTaken(rows, id, slug) == \E r \in rows : r.id # id /\ r.slug = slug

\* The error the store raises when a uniqueness guarantee is violated: code
\* P2002, with meta.target naming the fields of the constraint or absent.
UniqueViolation(fields) ==
    { [code |-> "P2002", target |-> [kind |-> "array", fields |-> fields]],
      [code |-> "P2002", target |-> [kind |-> "none", fields |-> {}]] }

\* where the transaction callback starts: the tag loop, or the post write
TxEntry(c) ==
    [c EXCEPT !.pc = IF c.tags # NoList /\ Len(c.tags) > 0 THEN "tag_find" ELSE "write",
              !.tagIndex = 1, !.tagIds = <<>>, !.created = {}]

\* what the update handler keeps of existingPost: whether data.title differs
\* from existingPost.title, and existingPost.slug when it does not
Snapshot(row, title) ==
    IF title # NoText /\ title # row.title
    THEN [retitled |-> TRUE, slug |-> NoText]
    ELSE [retitled |-> FALSE, slug |-> row.slug]

\* the slug factory of updatePost
UpdateSlugFactory(c) ==
    IF c.existing.retitled
    THEN [c EXCEPT !.pc = "slug", !.g = SlugSearch(c.title, c.postId)]
    ELSE TxEntry([c EXCEPT !.slug = c.existing.slug])

\* withSlugRetry calls slugFactory
SlugFactory(c) ==
    IF c.op = "createPost"
    THEN [c EXCEPT !.pc = "slug", !.g = SlugSearch(c.title, NoKey)]
    ELSE UpdateSlugFactory(c)

\* the catch block of withSlugRetry and the loop condition after it: the
\* transaction has rolled back, the handler retries or the error escapes
RetryBudget_Never(c) == FALSE

RetryBudget(c) == c.attempt + 1 < MAX_SLUG_RETRIES

withSlugRetry(h, c, error) ==
    IF isUniqueConstraintError(error, <<"slug">>) /\ RetryBudget(c)
    THEN Goto(h, SlugFactory([c EXCEPT !.attempt = c.attempt + 1]))
    ELSE Reply(h, c, "write", InternalError)

\* the id of the n-th tag a transaction has inserted, before its commit
LocalId(n) == 0 - n

\* the ids the rows of a transaction get when it commits
CommittedId(id) == IF id < 0 THEN db.nextTag + (0 - id) - 1 ELSE id

CommittedTags(c) == { [t EXCEPT !.id = CommittedId(t.id)] : t \in c.created }

CommittedTagIds(c) == [i \in 1..Len(c.tagIds) |-> CommittedId(c.tagIds[i])]

\* tagConnections names a tag that no longer exists (PostTag.tagId refers to Tag)
DanglingTag(c) ==
    \E i \in 1..Len(c.tagIds) : c.tagIds[i] > 0 /\ \A t \in db.tag : t.id # c.tagIds[i]

\* the Tag rows a call may still insert
TagDemand(c) ==
    IF c.op \in {"createPost", "updatePost"} THEN (IF c.tags = NoList THEN 0 ELSE Len(c.tags))
    ELSE IF c.op = "createTag" THEN 1 ELSE 0

RECURSIVE TagDemandOf(_)
TagDemandOf(hs) ==
    IF hs = {} THEN 0
    ELSE LET k == CHOOSE k \in hs : TRUE IN TagDemand(ctx[k]) + TagDemandOf(hs \ {k})

\* a call that may insert n tags starts only while MaxTags leaves room for them
TagRoom(n) == (db.nextTag - 1) + TagDemandOf(DOMAIN ctx) + n <= MaxTags

\* ---- createPost
CreateStart(h, u, title, tags) ==
    /\ CanStart(h)
    /\ db.nextPost + Cardinality(Serving({"createPost"})) <= MaxPosts
    /\ TagRoom(IF tags = NoList THEN 0 ELSE Len(tags))
    /\ LET c == ContentCall("createPost", u, NoKey, title, tags)
       IN IF ~requireAuth(u) THEN Reply(h, c, "start", Unauthorized)
          ELSE IF ~requireRole({"AUTHOR", "ADMIN"}, u) THEN Reply(h, c, "start", Forbidden)
          ELSE IF ~createPostSchema(title) THEN Reply(h, c, "start", ValidationError)
          ELSE Goto(h, SlugFactory(c))
    /\ UNCHANGED db

\* one lookup of generateUniqueSlug inside the slug factory
SlugLookup(h) ==
    /\ AtStep(h, "slug")
    /\ LET g == generateUniqueSlug(db.post, ctx[h].g)
       IN IF g.found THEN Goto(h, TxEntry([ctx[h] EXCEPT !.g = g, !.slug = g.slug]))
          ELSE Goto(h, [ctx[h] EXCEPT !.g = g])
    /\ UNCHANGED db

\* tags: { create: tagConnections } repeats a (postId, tagId) key
RepeatsTag(tagIds) == \E i, j \in 1..Len(tagIds) : i # j /\ tagIds[i] = tagIds[j]

NewPost(c, id) ==
    [id |-> id, authorId |-> c.user, title |-> sanitizeText(c.title), slug |-> c.slug,
     status |-> "DRAFT"]

Connections(id, tagIds) == { [postId |-> id, tagId |-> tagIds[i]] : i \in 1..Len(tagIds) }

\* what a transaction that throws leaves in the store: nothing of its writes
RolledBack_DeleteKept(d, c) ==
    IF c.op # "updatePost" \/ c.tags = NoList THEN d
    ELSE [d EXCEPT !.postTag = { pt \in @ : pt.postId # c.postId }]

RolledBack_TagsKept(d, c) ==
    [d EXCEPT !.tag = @ \cup CommittedTags(c), !.nextTag = @ + Cardinality(c.created)]

RolledBack(d, c) == d

\* tx.post.create and the commit of the transaction
CreateWrite(h) ==
    /\ AtStep(h, "write") /\ ctx[h].op = "createPost"
    /\ LET c == ctx[h]
       IN IF SlugTaken(db.post, NoKey, c.slug)
          THEN /\ \E error \in UniqueViolation({"slug"}) : withSlugRetry(h, c, error)
               /\ db' = RolledBack(db, c)
          ELSE IF DanglingTag(c)
          THEN /\ withSlugRetry(h, c, [code |-> "P2003"])
               /\ db' = RolledBack(db, c)
          ELSE IF RepeatsTag(c.tagIds)
          THEN /\ \E error \in UniqueViolation({"postId", "tagId"}) : withSlugRetry(h, c, error)
               /\ db' = RolledBack(db, c)
          ELSE /\ db' = [db EXCEPT !.post = @ \cup {NewPost(c, db.nextPost)},
                                   !.tag = @ \cup CommittedTags(c),
                                   !.postTag = @ \cup Connections(db.nextPost, CommittedTagIds(c)),
                                   !.nextPost = @ + 1,
                                   !.nextTag = @ + Cardinality(c.created)]
               /\ Reply(h, [c EXCEPT !.postId = db.nextPost], "write", Created)

\* ---- updatePost
UpdateStart(h, u, id, title, tags) ==
    /\ CanStart(h)
    /\ TagRoom(IF tags = NoList THEN 0 ELSE Len(tags))
    /\ LET c == ContentCall("updatePost", u, id, title, tags)
       IN IF ~requireAuth(u) THEN Reply(h, c, "start", Unauthorized)
          ELSE IF ~updatePostSchema(title) THEN Reply(h, c, "start", ValidationError)
          ELSE IF ~HasPost(id) THEN Reply(h, c, "start", PostNotFound)
          ELSE IF NotOwnerNorAdmin(FindPost(id).authorId, u)
               THEN Reply(h, c, "start", Forbidden)
          ELSE Goto(h, SlugFactory([c EXCEPT !.existing = Snapshot(FindPost(id), title)]))
    /\ UNCHANGED db

UpdatedPost(row, c) ==
    [row EXCEPT !.title = IF c.title # NoText THEN sanitizeText(c.title) ELSE @,
                !.slug = c.slug]

\* tx.postTag.deleteMany, tx.post.update and the commit of the transaction
UpdateWrite(h) ==
    /\ AtStep(h, "write") /\ ctx[h].op = "updatePost"
    /\ LET c == ctx[h]
       IN IF ~HasPost(c.postId)
          THEN /\ withSlugRetry(h, c, [code |-> "P2025"])
               /\ db' = RolledBack(db, c)
          ELSE IF SlugTaken(db.post, c.postId, c.slug)
          THEN /\ \E error \in UniqueViolation({"slug"}) : withSlugRetry(h, c, error)
               /\ db' = RolledBack(db, c)
          ELSE IF DanglingTag(c)
          THEN /\ withSlugRetry(h, c, [code |-> "P2003"])
               /\ db' = RolledBack(db, c)
          ELSE IF RepeatsTag(c.tagIds)
          THEN /\ \E error \in UniqueViolation({"postId", "tagId"}) : withSlugRetry(h, c, error)
               /\ db' = RolledBack(db, c)
          ELSE /\ db' = [db EXCEPT
                    !.post = (@ \ {FindPost(c.postId)}) \cup {UpdatedPost(FindPost(c.postId), c)},
                    !.tag = @ \cup CommittedTags(c),
                    !.postTag = IF c.tags = NoList THEN @
                                ELSE { pt \in @ : pt.postId # c.postId }
                                        \cup Connections(c.postId, CommittedTagIds(c)),
                    !.nextTag = @ + Cardinality(c.created)]
               /\ Reply(h, c, "write", Ok)

\* ---- deletePost
DeleteStart(h, u, id) ==
    /\ CanStart(h)
    /\ LET c == ContentCall("deletePost", u, id, NoText, NoList)
       IN IF ~requireAuth(u) THEN Reply(h, c, "start", Unauthorized)
          ELSE IF ~HasPost(id) THEN Reply(h, c, "start", PostNotFound)
          ELSE IF NotOwnerNorAdmin(FindPost(id).authorId, u)
               THEN Reply(h, c, "start", Forbidden)
          ELSE Goto(h, [c EXCEPT !.pc = "delete"])
    /\ UNCHANGED db

\* The store removes the PostTag rows of a post with the post.
WithoutTagsOfPost(rows, id) == { pt \in rows : pt.postId # id }

WithoutPost(d, id) ==
    [d EXCEPT !.post = { r \in @ : r.id # id },
              !.postTag = WithoutTagsOfPost(@, id)]

\* prisma.post.delete({ where: { id } })
DeleteWrite(h) ==
    /\ AtStep(h, "delete") /\ ctx[h].op = "deletePost"
    /\ IF ~HasPost(ctx[h].postId)
       THEN Reply(h, ctx[h], "write", InternalError) /\ UNCHANGED db
       ELSE /\ db' = WithoutPost(db, ctx[h].postId)
            /\ Reply(h, ctx[h], "write", Ok)

\* ---------------------------------------------------------------- post routes
Title_A == <<"A">>                  \* slugifies to a
Title_b == <<"b">>
SeedPost(author, status) ==
    [id |-> 1, authorId |-> author, title |-> sanitizeText(Title_A),
     slug |-> slugify(Title_A), status |-> status]

InitContent(seeds) ==
    /\ posts = [p \in PostIds |->
                  [authorId |-> PostAuthor(p), status |-> "DRAFT", publishedAt |-> NoDate]]
    /\ requests = {}
    /\ nextId = 1
    /\ ctx = [h \in Handlers |-> IdleCtx]
    /\ response = NoResponse
    /\ called = {}
    /\ NoTraffic
    /\ \E seed \in seeds : db = [EmptyDb EXCEPT !.post = {seed}, !.nextPost = 2]

\* ---- concurrent post writes: every post is carol's, carol is an ADMIN
InitSlugs == InitContent({SeedPost("carol", "DRAFT")})

NextSlugs ==
    \/ Deliver
    \/ \E h \in Handlers :
        \/ \E u \in {"carol", "dave", Anonymous} : CreateStart(h, u, Title_A, NoList)
        \/ SlugLookup(h)
        \/ CreateWrite(h)
        \/ \E u \in Actors, id \in PostKeys, title \in {Title_A, Title_b} :
              UpdateStart(h, u, id, title, NoList)
        \/ UpdateWrite(h)

SpecSlugs == InitSlugs /\ [][NextSlugs]_vars

\* ---- a burst of createPost calls with one title against an empty store
InitBurst ==
    /\ posts = [p \in PostIds |->
                  [authorId |-> PostAuthor(p), status |-> "DRAFT", publishedAt |-> NoDate]]
    /\ requests = {}
    /\ nextId = 1
    /\ ctx = [h \in Creators |-> IdleCtx]
    /\ response = NoResponse
    /\ called = {}
    /\ NoTraffic
    /\ db = EmptyDb

\* an ADMIN's createPost call reaches handler h, once per handler
BurstCall(h) ==
    /\ h \notin called
    /\ CanStart(h)
    /\ ctx' = [ctx EXCEPT ![h] =
                  SlugFactory(ContentCall("createPost", "carol", NoKey, Title_A, NoList))]
    /\ response' = NoResponse
    /\ called' = called \cup {h}
    /\ UNCHANGED <<posts, requests, nextId, db, limiterVars>>

NextBurst ==
    \/ Deliver
    \/ \E h \in Creators :
        \/ BurstCall(h)
        \/ SlugLookup(h)
        \/ CreateWrite(h)

SpecBurst == InitBurst /\ [][NextBurst]_vars

\* ---- who may change or remove a post: alice's post in any status, posts
\* created by alice (AUTHOR) and carol (ADMIN), every caller
InitAuth == InitContent({ SeedPost("alice", status) : status \in PostStatuses })

NextAuth ==
    \/ Deliver
    \/ \E h \in Handlers :
        \/ \E u \in Actors : CreateStart(h, u, Title_A, NoList)
        \/ SlugLookup(h)
        \/ CreateWrite(h)
        \/ \E u \in Actors, id \in PostKeys, title \in {Title_b, NoText} :
              UpdateStart(h, u, id, title, NoList)
        \/ UpdateWrite(h)
        \/ \E u \in Actors, id \in PostKeys : DeleteStart(h, u, id)
        \/ DeleteWrite(h)

SpecAuth == InitAuth /\ [][NextAuth]_vars

\* ---------------------------------------------------------------- tags
\* z.string().min(1).max(50)
createTagSchema(name) == Len(name) >= 1 /\ Len(name) <= 50

updateTagSchema(name) == Len(name) >= 1 /\ Len(name) <= 50

\* findFirst({ where: { name: { equals, mode: "insensitive" }, id: { not } } })
TagsNamed(rows, name, notId) ==
    { t \in rows : EqualsInsensitive(t.name, name) /\ t.id # notId }

\* The store's uniqueness guarantees on Tag: no other row has the same name
\* ignoring case, no other row has the same slug.
TagNameTaken_CaseSensitive(rows, row) == \E t \in rows : t.id # row.id /\ t.name = row.name

TagNameTaken(rows, row) == TagsNamed(rows, row.name, row.id) # {}

TagSlugTaken(rows, row) == \E t \in rows : t.id # row.id /\ t.slug = row.slug

\* the tag rows other transactions have inserted and not yet committed
InFlightTags(h) == UNION { ctx[k].created : k \in Serving({"createPost", "updatePost"}) \ {h} }

\* an insert or update of row waits for the end of a transaction that holds
\* a row it would collide with
MustWait(h, row) ==
    \E t \in InFlightTags(h) : EqualsInsensitive(t.name, row.name) \/ t.slug = row.slug

\* PostgreSQL refuses every statement of a transaction after one of its
\* statements has failed, until the transaction is rolled back
TransactionAborted == [code |-> "25P02"]

\* the rows a transaction sees: the committed ones and its own
Visible(c) == db.tag \cup c.created

\* the for loop over data.tags: the next name, or the post write
NextTag(c, id) ==
    [c EXCEPT !.tagIds = Append(c.tagIds, id),
              !.tagIndex = c.tagIndex + 1,
              !.pc = IF c.tagIndex = Len(c.tags) THEN "write" ELSE "tag_find"]

\* getOrCreateTag: tx.tag.findFirst by name
TagFind(h) ==
    /\ AtStep(h, "tag_find")
    /\ LET c == ctx[h]
           name == c.tags[c.tagIndex]
           found == TagsNamed(Visible(c), name, NoKey)
       IN IF found # {}
          THEN \E t \in found : Goto(h, NextTag(c, t.id))
          ELSE Goto(h, [c EXCEPT !.pc = "tag_slug", !.g = SlugSearch(name, NoKey)])
    /\ UNCHANGED db

\* one lookup of generateUniqueTagSlug, which reads through the shared client
TagSlugLookup(h) ==
    /\ AtStep(h, "tag_slug")
    /\ LET g == generateUniqueTagSlug(db.tag, ctx[h].g)
       IN Goto(h, [ctx[h] EXCEPT !.g = g,
                      !.pc = IF ~g.found THEN "tag_slug"
                             ELSE IF ctx[h].op \in {"createPost", "updatePost"}
                                  THEN "tag_create" ELSE "tag_write"])
    /\ UNCHANGED db

\* the catch block of getOrCreateTag: what it throws for the error of tx.tag.create
getOrCreateTagCatch(error) ==
    IF isUniqueConstraintError(error, <<>>) THEN TransactionAborted ELSE error

\* getOrCreateTag: tx.tag.create, and its catch block when the insert fails
TagCreate(h) ==
    /\ AtStep(h, "tag_create")
    /\ LET c == ctx[h]
           row == [id |-> LocalId(Cardinality(c.created) + 1),
                   name |-> c.tags[c.tagIndex], slug |-> c.g.slug]
       IN /\ ~MustWait(h, row)
          /\ IF TagNameTaken(Visible(c), row)
             THEN /\ \E error \in UniqueViolation({"name"}) :
                        withSlugRetry(h, c, getOrCreateTagCatch(error))
                  /\ db' = RolledBack(db, c)
             ELSE IF TagSlugTaken(Visible(c), row)
             THEN /\ \E error \in UniqueViolation({"slug"}) :
                        withSlugRetry(h, c, getOrCreateTagCatch(error))
                  /\ db' = RolledBack(db, c)
             ELSE /\ Goto(h, NextTag([c EXCEPT !.created = @ \cup {row}], row.id))
                  /\ UNCHANGED db

HasTag(id) == \E t \in db.tag : t.id = id

FindTag(id) == CHOOSE t \in db.tag : t.id = id

\* ---- createTag
CreateTagStart(h, u, name) ==
    /\ CanStart(h)
    /\ TagRoom(1)
    /\ LET c == ContentCall("createTag", u, NoKey, name, NoList)
       IN IF ~requireAuth(u) THEN Reply(h, c, "start", Unauthorized)
          ELSE IF ~requireRole({"ADMIN"}, u) THEN Reply(h, c, "start", Forbidden)
          ELSE IF ~createTagSchema(name) THEN Reply(h, c, "start", ValidationError)
          ELSE IF TagsNamed(db.tag, name, NoKey) # {} THEN Reply(h, c, "start", TagExists)
          ELSE Goto(h, [c EXCEPT !.pc = "tag_slug", !.g = SlugSearch(name, NoKey)])
    /\ UNCHANGED db

\* prisma.tag.create
CreateTagWrite(h) ==
    /\ AtStep(h, "tag_write") /\ ctx[h].op = "createTag"
    /\ LET c == ctx[h]
           row == [id |-> db.nextTag, name |-> c.title, slug |-> c.g.slug]
       IN /\ ~MustWait(h, row)
          /\ IF TagNameTaken(db.tag, row) \/ TagSlugTaken(db.tag, row)
             THEN Reply(h, c, "write", InternalError) /\ UNCHANGED db
             ELSE /\ db' = [db EXCEPT !.tag = @ \cup {row}, !.nextTag = @ + 1]
                  /\ Reply(h, [c EXCEPT !.postId = row.id], "write", Created)

\* ---- renameTag
RenameTagStart(h, u, id, name) ==
    /\ CanStart(h)
    /\ LET c == ContentCall("renameTag", u, id, name, NoList)
       IN IF ~requireAuth(u) THEN Reply(h, c, "start", Unauthorized)
          ELSE IF ~requireRole({"ADMIN"}, u) THEN Reply(h, c, "start", Forbidden)
          ELSE IF ~updateTagSchema(name) THEN Reply(h, c, "start", ValidationError)
          ELSE IF ~HasTag(id) THEN Reply(h, c, "start", TagNotFound)
          ELSE IF TagsNamed(db.tag, name, id) # {} THEN Reply(h, c, "start", TagExists)
          ELSE Goto(h, [c EXCEPT !.pc = "tag_slug", !.g = SlugSearch(name, id)])
    /\ UNCHANGED db

\* prisma.tag.update
RenameTagWrite(h) ==
    /\ AtStep(h, "tag_write") /\ ctx[h].op = "renameTag"
    /\ LET c == ctx[h]
           row == [id |-> c.postId, name |-> c.title, slug |-> c.g.slug]
       IN /\ ~MustWait(h, row)
          /\ IF ~HasTag(c.postId) \/ TagNameTaken(db.tag, row) \/ TagSlugTaken(db.tag, row)
             THEN Reply(h, c, "write", InternalError) /\ UNCHANGED db
             ELSE /\ db' = [db EXCEPT !.tag = (@ \ {FindTag(c.postId)}) \cup {row}]
                  /\ Reply(h, c, "write", Ok)

\* ---- deleteTag
\* _count.posts
PostsCount(id) == Cardinality({ pt \in db.postTag : pt.tagId = id })

DeleteTagStart(h, u, id) ==
    /\ CanStart(h)
    /\ LET c == ContentCall("deleteTag", u, id, NoText, NoList)
       IN IF ~requireAuth(u) THEN Reply(h, c, "start", Unauthorized)
          ELSE IF ~requireRole({"ADMIN"}, u) THEN Reply(h, c, "start", Forbidden)
          ELSE IF ~HasTag(id) THEN Reply(h, c, "start", TagNotFound)
          ELSE IF PostsCount(id) > 0 THEN Reply(h, c, "start", TagInUse)
          ELSE Goto(h, [c EXCEPT !.pc = "tag_delete"])
    /\ UNCHANGED db

\* The store refuses to delete a tag that a post is associated with.
TagDeleteRefused_Never(rows, id) == FALSE

TagDeleteRefused(rows, id) == \E pt \in rows : pt.tagId = id

\* prisma.tag.delete
DeleteTagWrite(h) ==
    /\ AtStep(h, "tag_delete") /\ ctx[h].op = "deleteTag"
    /\ IF ~HasTag(ctx[h].postId) \/ TagDeleteRefused(db.postTag, ctx[h].postId)
       THEN Reply(h, ctx[h], "write", InternalError) /\ UNCHANGED db
       ELSE /\ db' = [db EXCEPT !.tag = { t \in @ : t.id # ctx[h].postId }]
            /\ Reply(h, ctx[h], "write", Ok)

\* ---- post writes that name tags, next to the tag routes
Tag_j == <<"j">>
Tag_J == <<"J">>
Tag_s == <<"s">>
TagNames == {Tag_j, Tag_J}
TagLists == {<<>>, <<Tag_j>>, <<Tag_J>>, <<Tag_s>>, <<Tag_j, Tag_J>>}

InitTags == InitContent({SeedPost("alice", "DRAFT")})

NextTags ==
    \/ Deliver
    \/ \E h \in Handlers :
        \/ \E tags \in TagLists : CreateStart(h, "alice", Title_A, tags)
        \/ SlugLookup(h)
        \/ CreateWrite(h)
        \/ \E id \in PostKeys, tags \in TagLists : UpdateStart(h, "alice", id, NoText, tags)
        \/ UpdateWrite(h)
        \/ TagFind(h)
        \/ TagSlugLookup(h)
        \/ TagCreate(h)
        \/ \E u \in Actors, name \in TagNames : CreateTagStart(h, u, name)
        \/ CreateTagWrite(h)
        \/ \E u \in Actors, id \in TagKeys, name \in TagNames : RenameTagStart(h, u, id, name)
        \/ RenameTagWrite(h)
        \/ \E u \in Actors, id \in TagKeys : DeleteTagStart(h, u, id)
        \/ DeleteTagWrite(h)

SpecTags == InitTags /\ [][NextTags]_vars

\* ---------------------------------------------------------------- slugify
\* slugify called on a text, and called again on what it returned
TextChars == {"a", "A", "1", "_", "-", " ", "!", "<"}

Texts == UNION { [1..n -> TextChars] : n \in 0..MaxLen }

InitText ==
    /\ posts = [p \in PostIds |->
                  [authorId |-> PostAuthor(p), status |-> "DRAFT", publishedAt |-> NoDate]]
    /\ requests = {}
    /\ nextId = 1
    /\ response = NoResponse
    /\ called = {}
    /\ NoTraffic
    /\ db = EmptyDb
    /\ \E text \in Texts :
          ctx = [h \in Handlers |->
                   IF h = 1 THEN [pc |-> "text", op |-> "slugify", text |-> text,
                                  slug |-> NoText, again |-> NoText]
                   ELSE IdleCtx]

\* slug = slugify(text)
SlugifyCall(h) ==
    /\ ctx[h].pc = "text"
    /\ ctx' = [ctx EXCEPT ![h] = [ctx[h] EXCEPT !.slug = slugify(ctx[h].text),
                                                !.pc = "slugified"]]
    /\ UNCHANGED <<posts, requests, nextId, response, db, called, limiterVars>>

\* slugify(slug)
SlugifyAgain(h) ==
    /\ ctx[h].pc = "slugified"
    /\ ctx' = [ctx EXCEPT ![h] = [ctx[h] EXCEPT !.again = slugify(ctx[h].slug),
                                                !.pc = "twice"]]
    /\ UNCHANGED <<posts, requests, nextId, response, db, called, limiterVars>>

NextText == \E h \in Handlers : SlugifyCall(h) \/ SlugifyAgain(h)

SpecText == InitText /\ [][NextText]_vars

\* ================================================================ rate limit
\* The in-memory rate limiter (src/middleware/rate-limit.ts): one Map from
\* client key to { count, resetTime } that every limiter made by
\* rateLimiter(options) reads and writes, and the timer that removes expired
\* entries.  The middleware has no await before next(): it is one step.

\* ---------------------------------------------------------------- bounds
MaxTime == 3            \* values Date.now() takes
MaxCount == 3           \* requests counted in one entry
GeneralLimit == 2       \* limit of generalRateLimit (100 in the source)
GeneralWindow == 1      \* windowMs of generalRateLimit (one minute)
AuthLimit == 1          \* limit of authRateLimit (30)
AuthWindow == 2         \* windowMs of authRateLimit (five minutes)

Limiters == {"generalRateLimit", "authRateLimit"}

LimitOf(l) == IF l = "generalRateLimit" THEN GeneralLimit ELSE AuthLimit

WindowOf(l) == IF l = "generalRateLimit" THEN GeneralWindow ELSE AuthWindow

\* the values of keyGenerator(c)
ClientKeys == {"ip1", "ip2"}

TooManyRequests == "429 Rate limit exceeded"
CalledNext == "next()"

\* ---------------------------------------------------------------- the Map
\* rateLimitStore.set(key, entry)
MapSet(map, key, entry) ==
    [k \in DOMAIN map \cup {key} |-> IF k = key THEN entry ELSE map[k]]

\* rateLimitStore.delete(key) for every key of the set
MapDelete(map, keys) == [k \in DOMAIN map \ keys |-> map[k]]

\* !entry || entry.resetTime < now
NoWindow(map, key, t) == key \notin DOMAIN map \/ map[key].resetTime < t

Counted_NoReset(map, key, t, windowMs) ==
    LET entry == IF key \notin DOMAIN map
                 THEN [count |-> 0, resetTime |-> t + windowMs]
                 ELSE map[key]
    IN [entry EXCEPT !.count = @ + 1]

\* the entry after "Initialize or reset if window expired" and entry.count++
Counted(map, key, t, windowMs) ==
    LET entry == IF NoWindow(map, key, t)
                 THEN [count |-> 0, resetTime |-> t + windowMs]
                 ELSE map[key]
    IN [entry EXCEPT !.count = @ + 1]

\* entry.count > limit
LimitExceeded_Off(entry, limit) == FALSE

LimitExceeded(entry, limit) == entry.count > limit

\* what limiter l has done for a key in the window of the key's entry
NoneReached == [passed |-> 0, blocked |-> FALSE]

InitLimit ==
    /\ posts = [p \in PostIds |->
                  [authorId |-> PostAuthor(p), status |-> "DRAFT", publishedAt |-> NoDate]]
    /\ requests = {}
    /\ nextId = 1
    /\ ctx = [h \in Handlers |-> IdleCtx]
    /\ response = NoResponse
    /\ db = EmptyDb
    /\ called = {}
    /\ rateLimitStore = [k \in {} |-> NoneReached]
    /\ now = 0
    /\ reached = [l \in Limiters |-> [k \in ClientKeys |-> NoneReached]]
    /\ ownWindow = [l \in Limiters |-> [k \in {} |-> NoneReached]]

\* the middleware rateLimiter(options) returns, for a request with the key.
\* reached and ownWindow are history: what each limiter let through in the
\* window of the entry, and the entry the limiter would hold if it were the
\* only one to count the key.
Limit(l, key) ==
    LET fresh == NoWindow(rateLimitStore, key, now)
        entry == Counted(rateLimitStore, key, now, WindowOf(l))
        own == Counted(ownWindow[l], key, now, WindowOf(l))
        before == reached[l][key]
        limited == LimitExceeded(entry, LimitOf(l))
    IN /\ entry.count <= MaxCount
       /\ own.count <= MaxCount
       /\ rateLimitStore' = MapSet(rateLimitStore, key, entry)
       /\ ownWindow' = [ownWindow EXCEPT ![l] = MapSet(@, key, own)]
       /\ reached' = [m \in Limiters |->
             [reached[m] EXCEPT ![key] =
                LET r == IF fresh THEN NoneReached ELSE @
                IN IF m # l THEN r
                   ELSE IF limited THEN [r EXCEPT !.blocked = TRUE]
                   ELSE [r EXCEPT !.passed = @ + 1]]]
       /\ response' = [op |-> l, at |-> "rateLimiter", user |-> key,
                       postId |-> NoPostId, requestId |-> NoRequestId,
                       result |-> IF limited THEN TooManyRequests ELSE CalledNext,
                       fresh |-> fresh, before |-> before]
       /\ UNCHANGED <<posts, requests, nextId, ctx, db, called, now>>

\* Date.now() moves on
Tick ==
    /\ now < MaxTime
    /\ now' = now + 1
    /\ UNCHANGED <<posts, requests, nextId, ctx, response, db, called,
                   rateLimitStore, reached, ownWindow>>

\* the setInterval callback: delete the entries with resetTime < now
Cleanup ==
    /\ \E k \in DOMAIN rateLimitStore : rateLimitStore[k].resetTime < now
    /\ rateLimitStore' = MapDelete(rateLimitStore,
                            { k \in DOMAIN rateLimitStore : rateLimitStore[k].resetTime < now })
    /\ UNCHANGED <<posts, requests, nextId, ctx, response, db, called,
                   now, reached, ownWindow>>

NextLimit ==
    \/ \E l \in Limiters, key \in ClientKeys : Limit(l, key)
    \/ Tick
    \/ Cleanup

SpecLimit == InitLimit /\ [][NextLimit]_vars

\* ================================================================ reading
\* The endpoints that return posts: posts.get("/"), posts.get("/by-id/:id")
\* and posts.get("/:slug").  Each decides on one read of the store.

AllStatuses == {"DRAFT", "PENDING_APPROVAL", "PUBLISHED", "ARCHIVED"}

\* text contains the term, ignoring case (contains with mode: "insensitive")
Contains(text, term) ==
    \E i \in 1..(Len(text) - Len(term) + 1) :
        EqualsInsensitive(SubSeq(text, i, i + Len(term) - 1), term)

\* one condition of a where clause on one row
Holds(cond, row) ==
    CASE cond.field = "status" -> row.status = cond.equals
      [] cond.field = "authorId" -> row.authorId = cond.equals
      [] cond.field = "title" -> Contains(row.title, cond.contains)

\* the rows a where clause selects: its keys hold together, one condition of
\* OR holds, one condition of every OR inside AND holds.  A key that is
\* absent is Undefined; OR and AND that are absent are the empty list.
Matches(where, row) ==
    /\ where.status # Undefined => row.status = where.status
    /\ where.authorId # Undefined => row.authorId = where.authorId
    /\ where.OR # <<>> => \E i \in 1..Len(where.OR) : Holds(where.OR[i], row)
    /\ \A j \in 1..Len(where.AND) :
          \E i \in 1..Len(where.AND[j]) : Holds(where.AND[j][i], row)

EmptyWhere == [status |-> Undefined, authorId |-> Undefined, OR |-> <<>>, AND |-> <<>>]

PublishedOr(u) ==
    << [field |-> "status", equals |-> "PUBLISHED"], [field |-> "authorId", equals |-> u] >>

\* "Apply visibility rules based on authentication and role"
VisibilityRules_StatusAsAsked(where, u, status) ==
    IF ~requireAuth(u) THEN [where EXCEPT !.status = "PUBLISHED"]
    ELSE IF status # Undefined THEN [where EXCEPT !.status = status]
    ELSE IF RoleOf(u) = "ADMIN" THEN where
    ELSE [where EXCEPT !.OR = PublishedOr(u)]

VisibilityRules(where, u, status) ==
    IF ~requireAuth(u) THEN [where EXCEPT !.status = "PUBLISHED"]
    ELSE IF RoleOf(u) = "ADMIN"
    THEN IF status # Undefined THEN [where EXCEPT !.status = status] ELSE where
    ELSE IF status # Undefined /\ status # "PUBLISHED"
    THEN [where EXCEPT !.status = status, !.authorId = u]
    ELSE [where EXCEPT !.OR = PublishedOr(u)]

\* if (authorId) { ... }
AuthorFilter(where, u, authorId) ==
    IF authorId = Undefined THEN where
    ELSE LET w == IF requireAuth(u) /\ RoleOf(u) # "ADMIN" /\ authorId # u
                  THEN [where EXCEPT !.status = "PUBLISHED"] ELSE where
         IN [w EXCEPT !.authorId = authorId]

\* if (search) { ... }: the term in the title (content and excerpt are
\* searched the same way)
SearchFilter(where, search) ==
    IF search = NoText THEN where
    ELSE LET searchFilter == << [field |-> "title", contains |-> search] >>
         IN IF where.OR # <<>>
            THEN [where EXCEPT !.AND = << where.OR, searchFilter >>, !.OR = <<>>]
            ELSE [where EXCEPT !.OR = searchFilter]

\* the where clause of posts.get("/")
ListWhere(u, status, authorId, search) ==
    SearchFilter(AuthorFilter(VisibilityRules(EmptyWhere, u, status), u, authorId), search)

\* what a reading endpoint answers: its status and the posts in the body
Shown(op, u, res, rows) ==
    [op |-> op, at |-> "read", user |-> u, postId |-> NoPostId,
     requestId |-> NoRequestId, result |-> res, posts |-> rows]

ReadFrame == UNCHANGED <<posts, requests, nextId, ctx, db, called, limiterVars>>

\* posts.get("/")
ListPosts(u, status, authorId, search) ==
    /\ Delivered
    /\ response' = Shown("listPosts", u, Ok,
                      { r \in db.post : Matches(ListWhere(u, status, authorId, search), r) })
    /\ ReadFrame

\* posts.get("/by-id/:id")
GetPostById(u, id) ==
    /\ Delivered
    /\ response' =
          IF ~requireAuth(u) THEN Shown("getPostById", u, Unauthorized, {})
          ELSE IF ~HasPost(id) THEN Shown("getPostById", u, PostNotFound, {})
          ELSE IF NotOwnerNorAdmin(FindPost(id).authorId, u)
               THEN Shown("getPostById", u, Forbidden, {})
          ELSE Shown("getPostById", u, Ok, {FindPost(id)})
    /\ ReadFrame

\* z.string().min(1).max(200).regex(/^[a-z0-9]+(?:-[a-z0-9]+)*$/)
IsSlugParamChar(ch) == ch \in {"a", "b", "j", "s"} \cup Range(DigitChars)

postSlugParamSchema(slug) ==
    /\ Len(slug) >= 1 /\ Len(slug) <= 200
    /\ \A i \in 1..Len(slug) : IsSlugParamChar(slug[i]) \/ slug[i] = "-"
    /\ slug[1] # "-" /\ slug[Len(slug)] # "-"
    /\ \A i \in 1..(Len(slug) - 1) : ~(slug[i] = "-" /\ slug[i + 1] = "-")

\* the post is published, or the actor is its author or an admin
MayRead(u, row) ==
    row.status = "PUBLISHED" \/ u = row.authorId \/ RoleOf(u) = "ADMIN"

\* posts.get("/:slug")
GetPostBySlug(u, slug) ==
    /\ Delivered
    /\ response' =
          IF ~postSlugParamSchema(slug) THEN Shown("getPostBySlug", u, ValidationError, {})
          ELSE IF HoldersOf(db.post, slug) = {} THEN Shown("getPostBySlug", u, PostNotFound, {})
          ELSE LET post == CHOOSE r \in HoldersOf(db.post, slug) : TRUE
               IN IF ~MayRead(u, post) THEN Shown("getPostBySlug", u, PostNotFound, {})
                  ELSE Shown("getPostBySlug", u, Ok, {post})
    /\ ReadFrame

\* ---------------------------------------------------------------- inputs
ReadTitles == { Title_A, Title_b }
ReadSearches == { NoText, <<"a">>, <<"B">> }
ReadSlugs == { slugify(Title_A), slugify(Title_b), <<"a", "_">> }

\* a store of posts of two authors, in every status
ReadRow(id, author, status, title) ==
    [id |-> id, authorId |-> author, title |-> sanitizeText(title),
     slug |-> Suffixed(slugify(title), id), status |-> status]

InitRead ==
    /\ posts = [p \in PostIds |->
                  [authorId |-> PostAuthor(p), status |-> "DRAFT", publishedAt |-> NoDate]]
    /\ requests = {}
    /\ nextId = 1
    /\ ctx = [h \in Handlers |-> IdleCtx]
    /\ response = NoResponse
    /\ called = {}
    /\ NoTraffic
    /\ \E a1, a2 \in {"alice", "dave"}, s1, s2 \in AllStatuses, t1, t2 \in ReadTitles :
          db = [EmptyDb EXCEPT !.post = { ReadRow(1, a1, s1, t1), ReadRow(2, a2, s2, t2) },
                               !.nextPost = 3]

NextRead ==
    \/ Deliver
    \/ \E u \in Actors :
          \/ \E status \in AllStatuses \cup {Undefined},
                authorId \in Users \cup {Undefined},
                search \in ReadSearches : ListPosts(u, status, authorId, search)
          \/ \E id \in {1, 2, 3} : GetPostById(u, id)
          \/ \E slug \in { r.slug : r \in db.post } \cup ReadSlugs : GetPostBySlug(u, slug)

SpecRead == InitRead /\ [][NextRead]_vars

\* ---------------------------------------------------------------- stored slugs
\* posts written one call at a time with titles of every kind the schema lets through, and read
\* back through posts.get("/:slug") by the slug the store holds
StoredTitles == { Title_b, <<"!">>, <<"a", "_", "b">> }

InitStored == InitContent({SeedPost("carol", "DRAFT")})

NextStored ==
    \/ Deliver
    \/ \E u \in {"carol", Anonymous}, r \in db.post : GetPostBySlug(u, r.slug)
    \/ \E h \in {1} :
        \/ \E title \in StoredTitles : CreateStart(h, "carol", title, NoList)
        \/ SlugLookup(h)
        \/ CreateWrite(h)
        \/ \E id \in PostKeys, title \in StoredTitles : UpdateStart(h, "carol", id, title, NoList)
        \/ UpdateWrite(h)

SpecStored == InitStored /\ [][NextStored]_vars

PostRow(d, id) == CHOOSE r \in d.post : r.id = id

\* handler h commits the write of route op in this step
Commits(h, op) ==
    /\ ctx[h].op = op /\ ctx[h].pc \in {"write", "delete"}
    /\ ctx'[h].pc = "idle"
    /\ response'.result \in {Ok, Created}


\* the actor is the post's author or holds the ADMIN role
MayChange(u, row) == u = row.authorId \/ RoleOf(u) = "ADMIN"

TagsOfPost(d, id) == { pt.tagId : pt \in { x \in d.postTag : x.postId = id } }


\* C11: under any interleaving of concurrent createPost and updatePost calls
\* no two distinct posts have the same slug.
C11_UniquePostSlugs ==
    \A r1, r2 \in db.post : r1.id # r2.id => r1.slug # r2.slug

\* a create and an update raced for one slug: the create's write was refused
\* and it is about to write again, with the slug of its second search
C11_Witness ==
    \E h \in DOMAIN ctx :
        /\ ctx[h].op = "createPost" /\ ctx[h].attempt >= 1 /\ ctx[h].pc = "write"
        /\ \E r \in db.post : r.slug = slugify(ctx[h].title)

\* the slugs base, base-1, ..., base-(n-1)
FirstSlugs(base, n) ==
    (IF n >= 1 THEN {base} ELSE {}) \cup { Suffixed(base, k) : k \in 1..(n - 1) }

SlugsOf(rows) == { r.slug : r \in rows }

\* every call made so far has been answered
Quiescent == Delivered /\ \A h \in DOMAIN ctx : ctx[h].pc = "idle"

Min(a, b) == IF a <= b THEN a ELSE b

\* C12 as stated: once N concurrent createPost calls with one title have
\* all been answered, all N have created a post and the slugs are exactly
\* base, base-1, ..., base-(N-1).
C12_AllCreatorsSucceed ==
    Quiescent =>
        /\ Cardinality(db.post) = Cardinality(called)
        /\ SlugsOf(db.post) = FirstSlugs(slugify(Title_A), Cardinality(called))

\* C12 amended: once N concurrent createPost calls with one title have all
\* been answered, K >= min(N, MAX_SLUG_RETRIES) of them have created a post,
\* and the slugs created are exactly base, base-1, ..., base-(K-1), one
\* post each.
C12_CreatorsWithinRetries ==
    /\ SlugsOf(db.post) = FirstSlugs(slugify(Title_A), Cardinality(db.post))
    /\ Quiescent =>
          /\ Cardinality(db.post) <= Cardinality(called)
          /\ Cardinality(db.post) >= Min(Cardinality(called), MAX_SLUG_RETRIES)

\* three calls raced, the last of them succeeded at its third attempt
C12_Witness ==
    /\ Quiescent
    /\ Cardinality(called) = MAX_SLUG_RETRIES
    /\ Cardinality(db.post) = MAX_SLUG_RETRIES
    /\ response.result = NoResult

\* ================================================================ claims
\* no row other than the excluded one holds the slug
SlugFree(rows, slug, excludeId) == \A r \in rows : r.slug = slug => r.id = excludeId

\* the first of base, base-1, base-2, ... that is free
FirstFreeSlug(rows, title, excludeId) ==
    LET base == slugify(title)
        k == CHOOSE k \in 1..(Cardinality(rows) + 1) :
                /\ SlugFree(rows, Suffixed(base, k), excludeId)
                /\ \A j \in 1..(k - 1) : ~SlugFree(rows, Suffixed(base, j), excludeId)
    IN IF SlugFree(rows, base, excludeId) THEN base ELSE Suffixed(base, k)

SearchedTable(h) == IF ctx[h].op = "generateUniqueSlug" THEN db.post ELSE db.tag

\* C13: against a fixed table generateUniqueSlug and generateUniqueTagSlug
\* return slugify(title) when no row, or only the excluded row, holds it, and
\* otherwise base-k for the smallest k >= 1 that no row other than the
\* excluded one holds.
C13_UniqueSlugResult ==
    \A h \in Handlers :
        ctx[h].pc = "returned" =>
            ctx[h].g.slug = FirstFreeSlug(SearchedTable(h), ctx[h].title, ctx[h].g.excludeId)

\* base and base-1 are held by other rows and the search returned base-2
C13_Witness ==
    \E h \in Handlers :
        /\ ctx[h].pc = "returned"
        /\ ctx[h].g.slug = Suffixed(slugify(ctx[h].title), 2)
        /\ \E r \in SearchedTable(h) : r.slug = slugify(ctx[h].title) /\ r.id # ctx[h].g.excludeId
\* C14: an updatePost that supplies the title the post has, when the handler
\* reads the post and when its write commits, leaves the post's slug
\* unchanged, whatever the other posts and whatever its slug.
C14_OwnTitleKeepsSlug ==
    [][\A h \in DOMAIN ctx :
          (/\ Commits(h, "updatePost")
           /\ ctx[h].title # NoText
           /\ ctx[h].existing.retitled = FALSE
           /\ ctx[h].title = PostRow(db, ctx[h].postId).title)
          => PostRow(db', ctx[h].postId).slug = PostRow(db, ctx[h].postId).slug]_vars

PostWrites == {"createPost", "updatePost"}

\* C15 (attempts): a createPost or updatePost runs its slug search and its
\* transaction at most MAX_SLUG_RETRIES times; it starts another attempt only
\* after its write met a post that holds its slug; whatever ends the third
\* attempt ends the call, and every other failure ends it at once.
C15_RetryOnlyOnSlugConflict ==
    [][\A h \in DOMAIN ctx :
          ctx[h].op \in PostWrites =>
            /\ ctx'[h].op \in PostWrites => ctx'[h].attempt < MAX_SLUG_RETRIES
            /\ (ctx'[h].op \in PostWrites /\ ctx'[h].attempt # ctx[h].attempt)
               => (/\ ctx[h].pc = "write"
                   /\ ctx'[h].attempt = ctx[h].attempt + 1
                   /\ SlugTaken(db.post, ctx[h].postId, ctx[h].slug))
            /\ (/\ ctx[h].pc = "write" /\ ctx[h].attempt = MAX_SLUG_RETRIES - 1
                /\ ctx'[h] # ctx[h])
               => ctx'[h].pc = "idle"]_vars

\* the name handler h is resolving
ResolvedName(h) == ctx[h].tags[ctx[h].tagIndex]

\* the tags of that name ignoring case that a post write has committed and
\* associated with its post
WinnersOf(name) == { t \in TagsNamed(db.tag, name, NoKey) : PostsCount(t.id) > 0 }

\* C16: a post write that found no tag of its name and whose insert then
\* loses the race to another post write's tag of the same name ignoring case
\* does not fail: it goes on with the id of the tag that won.
C16_TagRaceLoserGoesOn ==
    [][\A h \in DOMAIN ctx :
          (/\ ctx[h].pc = "tag_create"
           /\ ctx'[h] # ctx[h]
           /\ WinnersOf(ResolvedName(h)) # {})
          => (/\ ctx'[h].pc # "idle"
              /\ \E t \in WinnersOf(ResolvedName(h)) :
                    ctx'[h].tagIds = Append(ctx[h].tagIds, t.id))]_vars

\* C17: under any interleaving of post writes that resolve tags, tag
\* creation and tag rename no two distinct tags have names that are equal
\* ignoring case.
C17_UniqueTagNames ==
    \A t1, t2 \in db.tag : t1.id # t2.id => ~EqualsInsensitive(t1.name, t2.name)

\* a tag creation found its name free, a post write committed a tag of that
\* name ignoring case, and the store refused the insert of the tag creation
C17_Witness ==
    /\ response.op = "createTag" /\ response.at = "write"
    /\ response.result = InternalError
    /\ \E t \in db.tag : PostsCount(t.id) > 0

C20_OwnerOrAdminOnly ==
    [][/\ (/\ response' # response
           /\ response'.at = "start"
           /\ response'.op \in {"updatePost", "deletePost"}
           /\ response'.user # Anonymous
           /\ HasPost(response'.postId))
          => (/\ response'.result = Forbidden
              /\ ~MayChange(response'.user, PostRow(db, response'.postId))
              /\ db' = db)
       /\ \A h \in DOMAIN ctx :
            /\ (/\ ctx[h].pc = "idle" /\ ctx'[h].pc # "idle"
                /\ ctx'[h].op \in {"updatePost", "deletePost"})
               => (/\ HasPost(ctx'[h].postId)
                   /\ MayChange(ctx'[h].user, PostRow(db, ctx'[h].postId)))
            /\ (Commits(h, "updatePost") \/ Commits(h, "deletePost"))
               => MayChange(ctx[h].user, PostRow(db, ctx[h].postId))
            /\ (/\ ctx[h].op = "deletePost" /\ ctx[h].pc = "delete" /\ ctx'[h].pc = "idle"
                /\ HasPost(ctx[h].postId))
               => (/\ response'.result = Ok
                   /\ \A r \in db'.post : r.id # ctx[h].postId
                   /\ TagsOfPost(db', ctx[h].postId) = {})
       /\ \A r \in db.post :
            (r \notin db'.post \/ TagsOfPost(db', r.id) # TagsOfPost(db, r.id))
            => \E h \in DOMAIN ctx :
                  /\ Commits(h, "updatePost") \/ Commits(h, "deletePost")
                  /\ ctx[h].postId = r.id]_vars

\* carol, an ADMIN, has deleted alice's post
C20_Witness ==
    /\ response.op = "deletePost" /\ response.result = Ok
    /\ response.user = "carol" /\ response.postId = 1
    /\ \A r \in db.post : r.id # 1

\* C21: a createPost changes the store only in the step that commits its
\* post; every other step of it, and every answer but 201, whatever the
\* attempt it ends, leaves the posts, the tags and the tag associations as
\* they were.
C21_FailedCreateLeavesNothing ==
    [][/\ \A h \in DOMAIN ctx :
             (ctx[h].op = "createPost" /\ ctx'[h] # ctx[h] /\ ~Commits(h, "createPost"))
             => db' = db
       /\ (/\ response' # response
           /\ response'.op = "createPost"
           /\ response'.result # Created)
          => db' = db]_vars

\* a createPost whose two attempts have failed holds, in its third
\* transaction, a tag row it inserted, and its write will be refused
C21_Witness ==
    \E h \in DOMAIN ctx :
        /\ ctx[h].op = "createPost" /\ ctx[h].pc = "write"
        /\ ctx[h].attempt = MAX_SLUG_RETRIES - 1
        /\ ctx[h].created # {}
        /\ RepeatsTag(ctx[h].tagIds)

\* C22: a PUBLISHED post has a publishedAt; publishedAt is written only by
\* the approve transaction, to a date, in the step that makes the post
\* PUBLISHED, and never cleared; reject and cancel leave it as it was.  So
\* publishedAt is non-null exactly when the post is or has been PUBLISHED.
C22_PublishedAtIffEverPublished ==
    /\ [](\A p \in PostIds : posts[p].status = "PUBLISHED" => posts[p].publishedAt # NoDate)
    /\ [][/\ \A p \in PostIds :
               /\ posts[p].publishedAt # NoDate => posts'[p].publishedAt # NoDate
               /\ (posts[p].status # "PUBLISHED" /\ posts'[p].status = "PUBLISHED")
                  => posts'[p].publishedAt # NoDate
               /\ posts'[p].publishedAt # posts[p].publishedAt
                  => (/\ posts'[p].status = "PUBLISHED"
                      /\ \E h \in Handlers : TookStep(h, "approve_tx") /\ ctx[h].postId = p)
          /\ \A h \in Handlers :
               (TookStep(h, "reject_tx") \/ TookStep(h, "cancel_tx"))
               => \A p \in PostIds : posts'[p].publishedAt = posts[p].publishedAt]_vars

\* a post that was PUBLISHED is a DRAFT again and has kept its publishedAt
C22_Witness ==
    \E p \in PostIds : posts[p].status = "DRAFT" /\ posts[p].publishedAt # NoDate

\* the characters of [a-z0-9_-]
SlugAlphabet == {"a", "b", "j", "s", "_", "-"} \cup Range(DigitChars)

\* the handlers that hold a text and the slug slugify made of it
Slugified == { h \in DOMAIN ctx : ctx[h].op = "slugify" /\ ctx[h].pc \in {"slugified", "twice"} }

\* only characters of [a-z0-9_-], no "-" at either end, no "-" twice in a
\* row; slugify of the slug is the slug
WellFormedSlug(h) ==
    LET slug == ctx[h].slug
    IN /\ \A i \in 1..Len(slug) : slug[i] \in SlugAlphabet
       /\ slug # <<>> => (slug[1] # "-" /\ slug[Len(slug)] # "-")
       /\ \A i \in 1..(Len(slug) - 1) : ~(slug[i] = "-" /\ slug[i + 1] = "-")
       /\ ctx[h].pc = "twice" => ctx[h].again = slug

LimitStep(l, key) ==
    /\ key \in DOMAIN rateLimitStore'
    /\ key \notin DOMAIN rateLimitStore \/ rateLimitStore'[key] # rateLimitStore[key]
    /\ response'.op = l /\ response'.user = key

\* the key has no entry, or its entry's reset time has passed
WindowExpired(key) ==
    key \notin DOMAIN rateLimitStore \/ rateLimitStore[key].resetTime < now

C25_AllowedAfterWindow ==
    [][\A l \in Limiters, key \in ClientKeys :
          (LimitStep(l, key) /\ WindowExpired(key))
          => (/\ rateLimitStore'[key] = [count |-> 1, resetTime |-> now + WindowOf(l)]
              /\ response'.result = CalledNext
              /\ reached'[l][key] = [passed |-> 1, blocked |-> FALSE])]_vars

\* a limiter that had answered 429 for a key has let the first request
\* with the key after the window through, as the first of a new window
C25_Witness ==
    \E l \in Limiters, key \in ClientKeys :
        /\ response.op = l /\ response.user = key
        /\ response.result = CalledNext
        /\ response.fresh /\ response.before.blocked
        /\ rateLimitStore[key].count = 1
        /\ key \in DOMAIN ownWindow[l] /\ ownWindow[l][key].count = 1

\* C29: a limiter answers 429 only to a request that exceeds the limiter's
\* own limit among the requests that this limiter has counted for the key in
\* its own window.
C29_LimitersIndependent ==
    [][\A l \in Limiters, key \in ClientKeys :
          (LimitStep(l, key) /\ response'.result = TooManyRequests)
          => ownWindow'[l][key].count > LimitOf(l)]_vars

ReadOps == {"listPosts", "getPostById", "getPostBySlug"}

\* C26: whatever the status, authorId and search filters, the list, the
\* get-by-id and the get-by-slug endpoints return a post that is not
\* PUBLISHED only to its author or to an admin; never to another user or to
\* a caller without a session.
C26_UnpublishedHidden ==
    response.op \in ReadOps =>
        \A r \in response.posts :
            r.status # "PUBLISHED" =>
                (response.user = r.authorId \/ RoleOf(response.user) = "ADMIN")

\* the list has answered a reader with alice's published post and without
\* her post that is not published
C26_Witness ==
    /\ response.op = "listPosts" /\ response.user = "dave"
    /\ \E r \in db.post :
          r.authorId = "alice" /\ r.status # "PUBLISHED" /\ r \notin response.posts
    /\ \E r \in response.posts : r.authorId = "alice"

\* C27: in every reachable state a post has status PENDING_APPROVAL exactly
\* when it has a PENDING PublishRequest, and every PublishRequest refers to
\* a post that exists.
C27_PendingIffPendingRequest ==
    /\ \A p \in PostIds : posts[p].status = "PENDING_APPROVAL" <=> HasPendingRequest(p)
    /\ \A r \in requests : r.postId \in DOMAIN posts

\* C28: the status of a post only ever changes DRAFT -> PENDING_APPROVAL in
\* a request, PENDING_APPROVAL -> PUBLISHED in an approve and
\* PENDING_APPROVAL -> DRAFT in a reject or a cancel; a PUBLISHED post stays
\* PUBLISHED and no post becomes ARCHIVED.
C28_StatusTransitions ==
    [][\A p \in PostIds :
          posts'[p].status # posts[p].status =>
             \/ /\ posts[p].status = "DRAFT" /\ posts'[p].status = "PENDING_APPROVAL"
                /\ \E h \in Handlers : TookStep(h, "request_tx")
             \/ /\ posts[p].status = "PENDING_APPROVAL" /\ posts'[p].status = "PUBLISHED"
                /\ \E h \in Handlers : TookStep(h, "approve_tx")
             \/ /\ posts[p].status = "PENDING_APPROVAL" /\ posts'[p].status = "DRAFT"
                /\ \E h \in Handlers : TookStep(h, "reject_tx") \/ TookStep(h, "cancel_tx")]_vars

\* C30: every slug createPost or updatePost stores is accepted by
\* postSlugParamSchema (non-empty, ^[a-z0-9]+(?:-[a-z0-9]+)*$), so a request
\* for a stored post by its slug is never refused as invalid.
C30_StoredSlugsAccepted ==
    /\ \A r \in db.post : postSlugParamSchema(r.slug)
    /\ (response.op = "getPostBySlug" => response.result # ValidationError)

====
